---- MODULE Spec2Model ----
(***************************************************************************)
(* EasySQL: the SQLType registry (Types.py, ABC.py), the table's schema    *)
(* reconciliation and the statement builders (Classes.py), as a state      *)
(* machine.                                                                *)
(*                                                                         *)
(* The specifications that share the module:                               *)
(*   SpecTypes    applies cast / parse of every registered SQLType to      *)
(*                probe values (the pure functions of Types.py, ABC.py);   *)
(*   SpecPrepare  a table constructed with auto_prepare=False over each    *)
(*                live database, then prepare() and the table's builder    *)
(*                entry points in any order;                               *)
(*   Spec         a table constructed with auto_prepare=True (prepared by  *)
(*                its constructor), then the statement builders, their     *)
(*                execute() and remove_safety() in any order;              *)
(*   SpecWhere    the Where combinators applied to the Where values built  *)
(*                so far;                                                  *)
(*   SpecConnect  the connection property of EasyDatabase and the loop of  *)
(*                _connect, one step per connect attempt, sleep and final  *)
(*                check, against a driver that may refuse and may drop the *)
(*                connection at any time;                                  *)
(*   SpecExecute  EasyDatabase.execute, one step per cursor, statement,    *)
(*                commit and return, over connections that may drop        *)
(*                between any two steps.                                   *)
(***************************************************************************)
EXTENDS Integers, Sequences, FiniteSets, TLC

VARIABLES
    \* ---- SpecTypes ----
    tyOp,        \* "none" | "cast" | "parse": the function applied last
    tyT,         \* the SQLType it was applied to
    tyX,         \* the Python value it was applied to
    tyRet,       \* what it returned or raised
    \* ---- Spec ----
    safe,        \* EasyDatabase._safe
    dbExists,    \* live database: the table exists
    dbCols,      \* live database: the table's DESCRIBE rows
    dbCollation, \* live database: the table's TABLE_COLLATION
    columns,     \* EasyTable._columns
    bound,       \* names of the declared columns whose .table is this table
    charset,     \* EasyTable._charset (a charset name, or "None")
    prepared,    \* EasyTable.__prepared
    b,           \* the statement builder in the caller's hands
    ret,         \* the last operation: its name and what it returned or raised
    log,         \* what the last operation did on the driver, in order
    fetched,     \* the rows the driver gave the last operation's fetchall()
    \* ---- SpecWhere ----
    heap,        \* the Where objects built so far, in order of construction
    whRet,       \* the last Where operation: its name, operands and returned text
    \* ---- SpecConnect ----
    auto_connect,  \* EasyDatabase._auto_connect
    dbCharset,     \* EasyDatabase._charset
    connection,    \* EasyDatabase._connection: "None", or a handle that is "alive" or "dead"
    cpc,           \* where the caller of the connection property stands
    attempt,       \* the local variable attempt of _connect
    tries,         \* mysql.connector.connect calls made for this request
    sleeps,        \* sleep(self._auto_connect_delay) calls made for this request
    logged,        \* the ordinal in the last "Attempting to make a connection" record
    cres,          \* what the connection property gave the caller
    \* ---- SpecExecute ----
    exConnection,  \* EasyDatabase._connection: 0 for None, else which connection it is
    exAlive,       \* _connection.is_connected()
    exPc,          \* where the caller of execute() stands
    exCall,        \* the execute() call: who makes it, buffered, auto_commit
    exCursor,      \* the connection the call's cursor was opened on
    exLog,         \* what the call did on the driver, in order, and on which connection
    exRet          \* what execute() returned or raised

tvars == <<tyOp, tyT, tyX, tyRet>>
mvars == <<safe, dbExists, dbCols, dbCollation, columns, bound, charset, prepared, b, ret, log,
           fetched>>
wvars == <<heap, whRet>>
cvars == <<auto_connect, dbCharset, connection, cpc, attempt, tries, sleeps, logged, cres>>
evars == <<exConnection, exAlive, exPc, exCall, exCursor, exLog, exRet>>
xvars == <<wvars, cvars, evars>>
vars == <<tyOp, tyT, tyX, tyRet,
          safe, dbExists, dbCols, dbCollation, columns, bound, charset, prepared, b, ret, log,
          fetched, heap, whRet,
          auto_connect, dbCharset, connection, cpc, attempt, tries, sleeps, logged, cres,
          exConnection, exAlive, exPc, exCall, exCursor, exLog, exRet>>

(***************************************************************************)
(* Python values.                                                          *)
(*                                                                         *)
(* A Python int is unbounded; the probes are the integers within MaxDelta  *)
(* of 0 and of +-2^e for the exponents e the integer casters compute       *)
(* (bit_size and bit_size - 1).  Such an integer is <<l, d>>: level l = 0  *)
(* is the plain integer d; level l > 0 is 2^Exps[l] + d and level l < 0 is *)
(* -(2^Exps[-l]) + d.  Consecutive levels are at least 2^7 apart and       *)
(* |d| <= MaxDelta < 2^6, so comparing <<l, d>> lexicographically is       *)
(* comparing the integers.                                                 *)
(***************************************************************************)
MaxDelta == 3

Exps == <<7, 8, 15, 16, 23, 24, 31, 32, 63, 64>>

Level(e) == CHOOSE i \in 1..Len(Exps) : Exps[i] = e

\* 2 ** e
Pow2(e) == IF e < 7 THEN <<0, 2 ^ e>> ELSE <<Level(e), 0>>

\* -x
IntNeg(x) == <<0 - x[1], 0 - x[2]>>

\* x - k
IntSub(x, k) == <<x[1], x[2] - k>>

\* x <= y
IntLeq(x, y) == x[1] < y[1] \/ (x[1] = y[1] /\ x[2] <= y[2])

\* str(x) of an int: decimal digits at level 0; beyond, the power is kept
\* symbolic ("2^64-1"), which is as injective as the digits are.
IntStr(x) ==
    IF x[1] = 0 THEN ToString(x[2])
    ELSE (IF x[1] < 0 THEN "-2^" ELSE "2^")
         \o ToString(Exps[IF x[1] < 0 THEN 0 - x[1] ELSE x[1]])
         \o (IF x[2] = 0 THEN "" ELSE IF x[2] > 0 THEN "+" \o ToString(x[2]) ELSE ToString(x[2]))

\* A Python value: its type t, its number n (int, bool, float) and its text s (str).
PyNone == [t |-> "none", n |-> <<0, 0>>, s |-> ""]
PyInt(x) == [t |-> "int", n |-> x, s |-> ""]
PyBool(v) == [t |-> "bool", n |-> <<0, IF v THEN 1 ELSE 0>>, s |-> ""]
PyFloat(k) == [t |-> "float", n |-> <<0, k>>, s |-> ""]
PyStr(x) == [t |-> "str", n |-> <<0, 0>>, s |-> x]

\* value == other, for Python values
PyEq(x, y) == x.t = y.t /\ x.n = y.n /\ x.s = y.s

\* bool(value)
Truthy(x) ==
    CASE x.t = "none" -> FALSE
      [] x.t = "str" -> x.s # ""
      [] OTHER -> x.n # <<0, 0>>

\* str(value) / f"{value}"
PyToStr(x) ==
    CASE x.t = "none" -> "None"
      [] x.t = "int" -> IntStr(x.n)
      [] x.t = "bool" -> IF x.n[2] = 1 THEN "True" ELSE "False"
      [] x.t = "float" -> IntStr(x.n) \o ".0"
      [] OTHER -> x.s

\* What a call returns: a value, or the exception it raised.
Ok(v) == [raised |-> "none", val |-> v]
Raise(e) == [raised |-> e, val |-> PyNone]

(***************************************************************************)
(* SQLType (ABC.py) and the registry (Types.py).                           *)
(*                                                                         *)
(* A SQLType is its base name, its args, its caster (with the bit size and *)
(* the unsigned argument _get_int_cast_ was called with), its parser, its  *)
(* default and its modifiable flag.                                        *)
(***************************************************************************)

\* int(value): ints, bools and whole floats convert; of the probe strings only
\* "7" is a numeral.
PyIntOf(x) ==
    CASE x.t \in {"int", "bool", "float"} -> Ok(PyInt(x.n))
      [] x.t = "str" /\ x.s = "7" -> Ok(PyInt(<<0, 7>>))
      [] x.t = "str" /\ x.s # "7" -> Raise("ValueError")
      [] OTHER -> Raise("TypeError")

\* float(value): a double holds every probe below 2^53 exactly and rounds the
\* probes around 2^63 and 2^64 to the power itself.
FloatRound(n) ==
    IF n[1] # 0 /\ Exps[IF n[1] < 0 THEN 0 - n[1] ELSE n[1]] >= 63 THEN <<n[1], 0>> ELSE n

PyFloatOf(x) ==
    CASE x.t \in {"int", "bool", "float"} -> Ok([t |-> "float", n |-> FloatRound(x.n), s |-> ""])
      [] x.t = "str" /\ x.s = "7" -> Ok([t |-> "float", n |-> <<0, 7>>, s |-> ""])
      [] x.t = "str" /\ x.s # "7" -> Raise("ValueError")
      [] OTHER -> Raise("TypeError")

\* _get_int_cast_(size, unsigned): the bounds it computes
IntCastMinimum(size, unsigned) == IF unsigned THEN IntNeg(Pow2(size - 1)) ELSE <<0, 0>>

IntCastMaximum(size, unsigned) == IF unsigned THEN IntSub(Pow2(size - 1), 1) ELSE Pow2(size)

\* _get_int_cast_(size, unsigned)(value)
IntCast(size, unsigned, value) ==
    IF value.t = "none" THEN Ok(PyNone)
    ELSE LET i == PyIntOf(value) IN
         IF i.raised # "none" THEN i
         ELSE IF ~(IntLeq(IntCastMinimum(size, unsigned), i.val.n)
                   /\ IntLeq(i.val.n, IntCastMaximum(size, unsigned)))
              THEN Raise("ValueError")
              ELSE i

\* _float_cast(value)
FloatCast(value) == IF value.t = "none" THEN Ok(PyNone) ELSE PyFloatOf(value)

\* (mutant) the caster quotes the text, as the parser does
StringCast_quoting(value) ==
    IF value.t = "none" THEN Ok(PyNone) ELSE Ok(PyStr("'" \o PyToStr(value) \o "'"))

\* _string_cast(value)
StringCast(value) == IF value.t = "none" THEN Ok(PyNone) ELSE Ok(PyStr(PyToStr(value)))

\* BOOL's caster: lambda value: None if value is None else True if value else False
BoolCast(value) == IF value.t = "none" THEN Ok(PyNone) ELSE Ok(PyBool(Truthy(value)))

\* SQLType.__init__'s default parser: 'null' if value is None else str(value)
DefaultParse(value) == IF value.t = "none" THEN "null" ELSE PyToStr(value)

\* _string_parse(value)
StringParse(value) == IF value.t = "none" THEN "null" ELSE "'" \o PyToStr(value) \o "'"

\* BOOL's parser: lambda value: '1' if value else '0'
BoolParse(value) == IF Truthy(value) THEN "1" ELSE "0"

SQLType(name, args, caster, size, unsigned, parser, default, modifiable) ==
    [name |-> name, args |-> args, caster |-> caster, size |-> size, unsigned |-> unsigned,
     parser |-> parser, default |-> default, modifiable |-> modifiable]

\* IntegerSQLType(name, bit_size, default): the base type, cast by _get_int_cast_(bit_size)
IntegerSQLType(name, bit_size) ==
    SQLType(name, <<>>, "int", bit_size, FALSE, "default", PyInt(<<0, 0>>), FALSE)

\* IntegerSQLType.UNSIGNED: cast by _get_int_cast_(bit_size, True)
UNSIGNED(T) == [T EXCEPT !.unsigned = TRUE]

BIGINT == IntegerSQLType("BIGINT", 64)
INT == IntegerSQLType("INT", 32)
MEDIUMINT == IntegerSQLType("MEDIUMINT", 24)
SMALLINT == IntegerSQLType("SMALLINT", 16)
TINYINT == IntegerSQLType("TINYINT", 8)

\* BIT's caster comes from get_caster: _get_int_cast_(self.args[0])
BIT == SQLType("BIT", <<1>>, "int", 1, FALSE, "default", PyInt(<<0, 0>>), TRUE)
BOOL == SQLType("BIT", <<1>>, "bool", 0, FALSE, "bool", PyBool(FALSE), FALSE)
FLOAT == SQLType("FLOAT", <<>>, "float", 0, FALSE, "default", PyFloat(0), FALSE)
DOUBLE == SQLType("DOUBLE", <<12, 6>>, "float", 0, FALSE, "default", PyFloat(0), TRUE)
DECIMAL == SQLType("DECIMAL", <<12, 6>>, "float", 0, FALSE, "default", PyFloat(0), TRUE)
VARCHAR == SQLType("VARCHAR", <<255>>, "str", 0, FALSE, "string", PyStr(""), TRUE)
CHAR == SQLType("CHAR", <<255>>, "str", 0, FALSE, "string", PyStr(""), TRUE)

\* The integer types with their declared bit width, and those that were given
\* unsigned=True (TINYINT was not: its UNSIGNED raises TypeError).
IntegerTypes == {BIGINT, INT, MEDIUMINT, SMALLINT, TINYINT}
UnsignedTypes == {UNSIGNED(T) : T \in IntegerTypes \ {TINYINT}}

RegisteredTypes ==
    IntegerTypes \cup UnsignedTypes \cup {BIT, BOOL, FLOAT, DOUBLE, DECIMAL, VARCHAR, CHAR}

RECURSIVE JoinInts(_)
\* ",".join([str(arg) for arg in args])
JoinInts(args) ==
    IF args = <<>> THEN ""
    ELSE IF Len(args) = 1 THEN ToString(args[1])
    ELSE ToString(args[1]) \o "," \o JoinInts(Tail(args))

\* SQLType.name
TypeName(T) == IF T.args # <<>> THEN T.name \o "(" \o JoinInts(T.args) \o ")" ELSE T.name

\* SQLType.__eq__
TypeEq(T, U) == TypeName(U) = TypeName(T) /\ U.args = T.args

\* SQLType.cast
Cast(T, value) ==
    CASE T.caster = "int" -> IntCast(T.size, T.unsigned, value)
      [] T.caster = "float" -> FloatCast(value)
      [] T.caster = "str" -> StringCast(value)
      [] OTHER -> BoolCast(value)

\* SQLType._parser
Parser(T, value) ==
    CASE T.parser = "default" -> DefaultParse(value)
      [] T.parser = "string" -> StringParse(value)
      [] OTHER -> BoolParse(value)

\* SQLType.parse: self._parser(self.cast(value))
Parse(T, value) ==
    LET c == Cast(T, value) IN
    IF c.raised # "none" THEN c ELSE Ok(PyStr(Parser(T, c.val)))

(***************************************************************************)
(* SpecTypes: cast and parse applied to the probe values.                  *)
(***************************************************************************)
ProbeInts == {<<l, d>> : l \in (0 - Len(Exps))..Len(Exps), d \in (0 - MaxDelta)..MaxDelta}

ProbeValues ==
    {PyNone, PyBool(TRUE), PyBool(FALSE), PyStr(""), PyStr("A"), PyStr("7"), PyFloat(2)}
    \cup {PyInt(x) : x \in ProbeInts}

\* The probe is drawn, then one function is applied to it
TyInit == tyOp = "none" /\ tyT \in RegisteredTypes /\ tyX \in ProbeValues /\ tyRet = Ok(PyNone)

TyIdle == tyOp = "none" /\ tyT = BIGINT /\ tyX = PyNone /\ tyRet = Ok(PyNone)

\* No Where has been built
WhereIdle == heap = <<>> /\ whRet = [op |-> "none", a |-> 0, b |-> 0, text |-> ""]

\* No connection has been asked for
ConnectIdle ==
    /\ auto_connect = TRUE /\ dbCharset = [name |-> "", collation |-> ""] /\ connection = "None"
    /\ cpc = "idle" /\ attempt = 1 /\ tries = 0 /\ sleeps = 0 /\ logged = "" /\ cres = "none"

\* No execute() has been called
NoCall == [op |-> "none", buffered |-> FALSE, auto_commit |-> FALSE]

ExecuteIdle ==
    /\ exConnection = 0 /\ exAlive = FALSE /\ exPc = "idle" /\ exCall = NoCall
    /\ exCursor = 0 /\ exLog = <<>> /\ exRet = "none"

XIdle == WhereIdle /\ ConnectIdle /\ ExecuteIdle

(***************************************************************************)
(* string_to_type (Types.py): the reverse lookup from a type string that   *)
(* DESCRIBE reports.  Strings are sliced as Python slices them.            *)
(***************************************************************************)
RECURSIVE FindFrom(_, _, _)
FindFrom(str, ch, i) ==
    IF i > Len(str) THEN 0
    ELSE IF SubSeq(str, i, i) = ch THEN i
    ELSE FindFrom(str, ch, i + 1)

\* string.find(ch), 1-based; 0 when absent
Find(str, ch) == FindFrom(str, ch, 1)

RECURSIVE RFindFrom(_, _, _)
RFindFrom(str, ch, i) ==
    IF i < 1 THEN 0
    ELSE IF SubSeq(str, i, i) = ch THEN i
    ELSE RFindFrom(str, ch, i - 1)

\* string.rfind(ch), 1-based; 0 when absent
RFind(str, ch) == RFindFrom(str, ch, Len(str))

UpperChars == <<"A", "B", "C", "D", "E", "F", "G", "H", "I", "J", "K", "L", "M",
                "N", "O", "P", "Q", "R", "S", "T", "U", "V", "W", "X", "Y", "Z">>
LowerChars == <<"a", "b", "c", "d", "e", "f", "g", "h", "i", "j", "k", "l", "m",
                "n", "o", "p", "q", "r", "s", "t", "u", "v", "w", "x", "y", "z">>

LowerChar(ch) ==
    IF \E i \in 1..Len(UpperChars) : UpperChars[i] = ch
    THEN LowerChars[CHOOSE i \in 1..Len(UpperChars) : UpperChars[i] = ch]
    ELSE ch

RECURSIVE Lower(_)
\* string.lower()
Lower(str) == IF Len(str) = 0 THEN "" ELSE LowerChar(SubSeq(str, 1, 1)) \o Lower(SubSeq(str, 2, Len(str)))

Digits == <<"0", "1", "2", "3", "4", "5", "6", "7", "8", "9">>

RECURSIVE ParseInt(_, _)
\* int(arg) of a digit string, most significant digit first
ParseInt(str, acc) ==
    IF Len(str) = 0 THEN acc
    ELSE ParseInt(SubSeq(str, 2, Len(str)),
                  acc * 10 + (CHOOSE d \in 0..9 : Digits[d + 1] = SubSeq(str, 1, 1)))

\* (mutant) only the first parameter is read back
SplitInts_first(str) ==
    LET c == Find(str, ",") IN
    <<ParseInt(IF c = 0 THEN str ELSE SubSeq(str, 1, c - 1), 0)>>

RECURSIVE SplitInts(_)
\* [int(arg) for arg in args.split(',')]
SplitInts(str) ==
    LET c == Find(str, ",") IN
    IF c = 0 THEN <<ParseInt(str, 0)>>
    ELSE <<ParseInt(SubSeq(str, 1, c - 1), 0)>> \o SplitInts(SubSeq(str, c + 1, Len(str)))

\* type_dict: the registry key for a lower-cased base name, or NoType
NoType == SQLType("", <<>>, "none", 0, FALSE, "default", PyNone, FALSE)

TypeDict(base) ==
    CASE base = "bigint" -> BIGINT
      [] base \in {"int", "integer"} -> INT
      [] base = "mediumint" -> MEDIUMINT
      [] base = "smallint" -> SMALLINT
      [] base = "tinyint" -> TINYINT
      [] base \in {"bit", "bool", "boolean"} -> BIT
      [] base = "float" -> FLOAT
      [] base = "double" -> DOUBLE
      [] base \in {"decimal", "dec"} -> DECIMAL
      [] base = "varchar" -> VARCHAR
      [] base = "char" -> CHAR
      [] OTHER -> NoType

\* SQLType.__call__(*args) of a modifiable type: the same type with new args;
\* a caster made by get_caster (BIT's) is made again from the new args.
TypeCall(T, args) ==
    [T EXCEPT !.args = args, !.size = IF T.caster = "int" THEN args[1] ELSE T.size]

\* string_to_type(string); NoType stands for the None it returns on no match
string_to_type(string) ==
    LET open == Find(string, "(")
        close == RFind(string, ")")
        \* string[find('(') + 1:rfind(')')]: with no ')' the slice ends before the last character
        args == IF open > 0
                THEN SubSeq(string, open + 1, IF close = 0 THEN Len(string) - 1 ELSE close - 1)
                ELSE ""
        base == IF open > 0 THEN Lower(SubSeq(string, 1, open - 1)) ELSE string
        key == TypeDict(base)
    IN  IF key = NoType THEN NoType
        ELSE IF TypeEq(key, BIT) /\ base # "bit" THEN BOOL
        ELSE IF ~key.modifiable \/ open = 0 THEN key
        ELSE TypeCall(key, SplitInts(args))

(***************************************************************************)
(* EasyColumn (Classes.py).                                                *)
(***************************************************************************)
NOT_NULL == "NOT NULL"
AUTO_INCREMENT == "AUTO_INCREMENT"

InSeq(x, seq) == \E i \in 1..Len(seq) : seq[i] = x

\* EasyColumn.__init__: the default falls back only when the given one is falsy
EasyColumn(name, sql_type, tags, default) ==
    [name |-> name, sql_type |-> sql_type, tags |-> tags,
     default |-> IF Truthy(default) THEN default
                 ELSE IF InSeq(NOT_NULL, tags) THEN sql_type.default ELSE PyNone]

\* EasyColumn.__eq__ / __hash__: the (name, sql_type) pair that set() compares
ColumnKey(col) == <<col.name, TypeName(col.sql_type), col.sql_type.args>>

ColumnSet(cols) == {ColumnKey(cols[i]) : i \in 1..Len(cols)}

ColumnNames(cols) == {cols[i].name : i \in 1..Len(cols)}

(***************************************************************************)
(* The declared table and the live database.                               *)
(***************************************************************************)
DatabaseName == "MyDatabase"
TableName == "MyTable"

\* CHARSET (ABC.py); NoCharset stands for None
NoCharset == [name |-> "", collation |-> ""]
Utf8mb4 == [name |-> "utf8mb4", collation |-> "utf8mb4_general_ci"]

ID == EasyColumn("ID", BIGINT, <<AUTO_INCREMENT>>, PyNone)
Name == EasyColumn("Name", TypeCall(VARCHAR, <<255>>), <<NOT_NULL>>, PyStr("Missing"))
Premium == EasyColumn("Premium", BOOL, <<NOT_NULL>>, PyBool(FALSE))

\* EasyTable.PRIMARY, collected by __init_subclass__ from the PRIMARY tags
PRIMARY(cols) == IF InSeq(ID, cols) THEN <<"ID">> ELSE <<>>

\* The column declarations a table class is given
DeclaredOptions == {<<>>, <<ID, Name>>}

\* One row of DESCRIBE: (name, type string, nullable, key, default)
DescribeRow(name, type, null, key, default) ==
    [name |-> name, type |-> type, null |-> null, key |-> key, default |-> default]

\* What the server reports for a column it created from the column's DDL
DescribeRowOf(col, primary) ==
    DescribeRow(col.name, Lower(TypeName(col.sql_type)),
                IF InSeq(NOT_NULL, col.tags) THEN "NO" ELSE "YES",
                IF InSeq(col.name, primary) THEN "PRI" ELSE "",
                col.default)

DescribeRowsOf(cols) == [i \in 1..Len(cols) |-> DescribeRowOf(cols[i], PRIMARY(cols))]

\* The tables the live database may hold under the table's name
LiveOptions ==
    { DescribeRowsOf(<<ID, Name>>),
      DescribeRowsOf(<<Name, ID>>),
      DescribeRowsOf(<<ID>>),
      <<DescribeRowOf(ID, <<"ID">>), DescribeRow("Name", "varchar(100)", "NO", "", PyStr("Missing"))>>,
      <<DescribeRowOf(ID, <<"ID">>), DescribeRow("Created", "datetime", "YES", "", PyNone)>> }

LiveCollations == {"utf8mb4_general_ci", "latin1_swedish_ci"}

(***************************************************************************)
(* EasyDatabase.execute (Classes.py).                                      *)
(*                                                                         *)
(* The driver is the environment: each call of execute meets a driver that *)
(* answers ("ok"), a connection that cannot be had, so that the connection *)
(* property raises before a cursor exists ("conn"), or a cursor.execute    *)
(* that raises ("exec").                                                   *)
(***************************************************************************)
Modes == {"ok", "conn", "exec"}

Stmt(kind, text) == [kind |-> kind, text |-> text]

ExecuteEv(stmt, buffered) ==
    [ev |-> "execute", kind |-> stmt.kind, text |-> stmt.text, buffered |-> buffered]

CommitEv == [ev |-> "commit", kind |-> "", text |-> "", buffered |-> FALSE]

\* execute(operation, params, buffered, auto_commit): what reaches the driver, in
\* order, and the exception that leaves the call
Database_execute(stmt, buffered, auto_commit, mode) ==
    CASE mode = "conn" -> [raised |-> "DatabaseConnectionException", log |-> <<>>]
      [] mode = "exec" -> [raised |-> "DriverError", log |-> <<ExecuteEv(stmt, buffered)>>]
      [] OTHER -> [raised |-> "none",
                   log |-> <<ExecuteEv(stmt, buffered)>>
                           \o (IF auto_commit THEN <<CommitEv>> ELSE <<>>)]

\* EasyDatabase.describe_table: the DESCRIBE rows as columns
describe_columns(rows) ==
    [i \in 1..Len(rows) |->
        EasyColumn(rows[i].name, string_to_type(rows[i].type),
                   IF rows[i].null = "NO" THEN <<NOT_NULL>> ELSE <<>>, rows[i].default)]

\* describe_table raises TypeError at the first type string with no SQLType
describe_unrecognized(rows) == \E i \in 1..Len(rows) : string_to_type(rows[i].type) = NoType

(***************************************************************************)
(* The statements EasyTable.prepare sends.                                 *)
(***************************************************************************)
RECURSIVE Join(_, _)
\* sep.join(parts)
Join(parts, sep) ==
    IF parts = <<>> THEN ""
    ELSE IF Len(parts) = 1 THEN parts[1]
    ELSE parts[1] \o sep \o Join(Tail(parts), sep)

RECURSIVE SpacedTags(_)
SpacedTags(tags) == IF tags = <<>> THEN "" ELSE " " \o Head(tags) \o SpacedTags(Tail(tags))

\* EasyColumn.get_sql (the declared columns' defaults all parse)
get_sql(col) ==
    col.name \o " " \o TypeName(col.sql_type) \o SpacedTags(col.tags)
    \o (IF col.default.t # "none" THEN " DEFAULT " \o Parse(col.sql_type, col.default).val.s ELSE "")

ShowTablesStmt ==
    Stmt("SHOW", "SHOW TABLES FROM " \o DatabaseName \o " WHERE Tables_in_" \o DatabaseName
                 \o " = '" \o TableName \o "';")

CreateTableStmt(cols) ==
    Stmt("CREATE", "CREATE TABLE " \o TableName \o " ("
                   \o Join([i \in 1..Len(cols) |-> get_sql(cols[i])], ", ")
                   \o (IF Len(PRIMARY(cols)) > 0
                       THEN ", PRIMARY KEY(" \o Join(PRIMARY(cols), ", ") \o ")" ELSE "")
                   \o ");")

DescribeStmt == Stmt("DESCRIBE", "DESCRIBE " \o DatabaseName \o "." \o TableName \o ";")

CollationStmt ==
    Stmt("SELECT", "SELECT TABLE_COLLATION FROM INFORMATION_SCHEMA.TABLES WHERE TABLE_NAME = '"
                   \o TableName \o "'")

AlterCharsetStmt(cs) ==
    Stmt("ALTER", "ALTER TABLE " \o TableName \o " CONVERT TO CHARACTER SET " \o cs.name
                  \o " COLLATE " \o cs.collation \o ";")

(***************************************************************************)
(* EasyTable.prepare and EasyTable.set_charset (Classes.py).               *)
(*                                                                         *)
(* A call works on the record of what it may change: the exception that    *)
(* leaves it, its driver log, and the table's and the live database's      *)
(* state.                                                                  *)
(***************************************************************************)
Current ==
    [raised |-> "none", log |-> <<>>, columns |-> columns, bound |-> bound,
     charset |-> charset, prepared |-> prepared,
     dbExists |-> dbExists, dbCols |-> dbCols, dbCollation |-> dbCollation]

\* fetchall()[0] of the collation query: the row, a 1-tuple holding the collation
CollationRow(collation) == [t |-> "tuple", n |-> <<0, 0>>, s |-> collation]

\* charset.collation != col
CollationDiffers(cs, col) == ~PyEq(PyStr(cs.collation), col)

\* (mutant) a failed ALTER leaves set_charset as the exception it is
set_charset_raising(st, cs, m3, m4) ==
    IF cs = NoCharset THEN st
    ELSE LET q == Database_execute(CollationStmt, FALSE, FALSE, m3)
             a == Database_execute(AlterCharsetStmt(cs), FALSE, TRUE, m4)
             st1 == [st EXCEPT !.log = @ \o q.log \o a.log]
         IN  IF a.raised # "none" THEN [st1 EXCEPT !.raised = a.raised]
             ELSE [st1 EXCEPT !.dbCollation = cs.collation, !.charset = cs]

\* set_charset(charset), continuing st; m3 and m4 are the driver's answers to the
\* collation query and to the ALTER
set_charset(st, cs, m3, m4) ==
    IF cs = NoCharset THEN st
    ELSE LET q == Database_execute(CollationStmt, FALSE, FALSE, m3)
             \* the inner try: any exception (that of fetchall()[0] on no row too) gives None
             col == IF q.raised # "none" \/ ~st.dbExists THEN PyNone
                    ELSE CollationRow(st.dbCollation)
             st1 == [st EXCEPT !.log = @ \o q.log]
         IN  IF CollationDiffers(cs, col)
             THEN LET a == Database_execute(AlterCharsetStmt(cs), FALSE, TRUE, m4) IN
                  IF a.raised # "none"
                  THEN [st1 EXCEPT !.log = @ \o a.log]      \* the outer except: logged, dropped
                  ELSE [st1 EXCEPT !.log = @ \o a.log, !.dbCollation = cs.collation, !.charset = cs]
             ELSE [st1 EXCEPT !.charset = cs]

\* The errors prepare() and describe_table raise
NoColumnsError == "ValueError: No columns where specified and table does not exist"
SchemaMismatchError == "ValueError: Existing table does not match with specified columns."
TypeRecognitionError == "TypeError: Unable to recognize name as a SQLType"

\* (mutant) an absent table is created whatever is declared
HasColumns_always(cols) == TRUE

\* `if not self._columns` in prepare()'s branch for an absent table
HasColumns(cols) == cols # <<>>

\* (mutant) the columns compared in their order, as tuples
ColumnsMismatch_ordered(declared, live) ==
    [i \in 1..Len(declared) |-> ColumnKey(declared[i])] # [i \in 1..Len(live) |-> ColumnKey(live[i])]

\* (mutant) the columns compared by name alone
ColumnsMismatch_names(declared, live) == ColumnNames(declared) # ColumnNames(live)

\* c1 != c2 on set(self._columns) and set(columns)
ColumnsMismatch(declared, live) == ColumnSet(declared) # ColumnSet(live)

\* prepare(): m[i] is the driver's answer to the i-th execute the call may make
prepare(m) ==
    LET show == Database_execute(ShowTablesStmt, TRUE, TRUE, m[1])
        st1 == [Current EXCEPT !.log = show.log]
    IN
    IF show.raised # "none" THEN [st1 EXCEPT !.raised = show.raised]
    ELSE IF ~dbExists
    THEN IF HasColumns(columns)
         THEN LET create == Database_execute(CreateTableStmt(columns), FALSE, TRUE, m[2])
                  \* every column is bound before the CREATE is sent
                  st2 == [st1 EXCEPT !.bound = ColumnNames(columns), !.log = @ \o create.log]
              IN  IF create.raised # "none" THEN [st2 EXCEPT !.raised = create.raised]
                  ELSE [set_charset([st2 EXCEPT !.dbExists = TRUE,
                                                !.dbCols = DescribeRowsOf(columns)],
                                    charset, m[3], m[4])
                        EXCEPT !.prepared = TRUE]
         ELSE [st1 EXCEPT !.raised = NoColumnsError]
    ELSE LET describe == Database_execute(DescribeStmt, TRUE, TRUE, m[2])
             st2 == [st1 EXCEPT !.log = @ \o describe.log]
         IN  IF describe.raised # "none" THEN [st2 EXCEPT !.raised = describe.raised]
             ELSE IF describe_unrecognized(dbCols) THEN [st2 EXCEPT !.raised = TypeRecognitionError]
             ELSE IF Len(columns) = 0
             THEN LET live == describe_columns(dbCols) IN
                  [set_charset([st2 EXCEPT !.columns = live, !.bound = ColumnNames(live)],
                               charset, m[3], m[4])
                   EXCEPT !.prepared = TRUE]
             ELSE IF ColumnsMismatch(columns, describe_columns(dbCols))
             THEN [st2 EXCEPT !.raised = SchemaMismatchError]
             ELSE [set_charset([st2 EXCEPT !.bound = ColumnNames(columns)], charset, m[3], m[4])
                   EXCEPT !.prepared = TRUE]

(***************************************************************************)
(* The statement builder in the caller's hands, and the last operation.    *)
(***************************************************************************)
\* Where (Where.py): None, or the text of the condition
NoWhere == [none |-> TRUE, value |-> ""]
Where(text) == [none |-> FALSE, value |-> text]

NoBuilder ==
    [kind |-> "none", columns |-> <<>>, values |-> <<>>, where |-> NoWhere,
     force_one |-> FALSE, update |-> FALSE]

\* The last operation: which, the exception that left it, and what it returned
\* (a Select's result: its shape and its rows; otherwise nothing)
Returned(op, raised, shape, rows) == [op |-> op, raised |-> raised, shape |-> shape, rows |-> rows]

\* A table class over each live database, constructed with auto_prepare=False
InitPrepare ==
    /\ TyIdle /\ XIdle
    /\ safe = TRUE                                       \* EasyDatabase.__init__
    /\ columns \in DeclaredOptions                       \* EasyTable.__init_subclass__
    /\ charset \in {NoCharset, Utf8mb4}
    /\ prepared = FALSE                                  \* EasyTable.__init__
    /\ bound = {}
    /\ dbExists \in BOOLEAN
    /\ dbCols \in (IF dbExists THEN LiveOptions ELSE {<<>>})
    /\ dbCollation \in (IF charset = NoCharset THEN {"latin1_swedish_ci"} ELSE LiveCollations)
    /\ b = NoBuilder
    /\ ret = Returned("init", "none", "", <<>>)
    /\ log = <<>>
    /\ fetched = <<>>

\* A table class with no charset, constructed with auto_prepare=True over a
\* database without the table: the constructor's prepare() has created it
Init ==
    /\ TyIdle /\ XIdle
    /\ safe = TRUE
    /\ columns \in {<<ID, Name>>, <<ID, Name, Premium>>}
    /\ charset = NoCharset
    /\ prepared = TRUE
    /\ bound = ColumnNames(columns)
    /\ dbExists = TRUE
    /\ dbCols = DescribeRowsOf(columns)
    /\ dbCollation = "latin1_swedish_ci"
    /\ b = NoBuilder
    /\ ret = Returned("init", "none", "", <<>>)
    /\ log = <<>>
    /\ fetched = <<>>

(***************************************************************************)
(* Select, Insert, Update, Delete (Classes.py).                            *)
(***************************************************************************)
MaxCols == 2
MaxVals == 2
MaxRows == 2

\* The tuples of at most n elements of S
SeqsUpTo(S, n) == UNION {[1..k -> S] : k \in 0..n}

Distinct(seq) == \A i, j \in 1..Len(seq) : i # j => seq[i] # seq[j]

\* What a caller may pass for columns: names of the table's columns and a name it lacks
ColumnChoices == {c \in SeqsUpTo(ColumnNames(columns) \cup {"Nope"}, MaxCols) : Distinct(c)}

ValueChoices == SeqsUpTo({PyInt(<<0, 1>>), PyStr("A")}, MaxVals)

\* WhereIsEqual(column, value) (Where.py)
WhereIsEqual(col, value) == Where(col.name \o " = " \o Parse(col.sql_type, value).val.s)

WhereChoices == {NoWhere, WhereIsEqual(ID, PyInt(<<0, 1>>))}

\* What the driver hands back for one field of a column: ints (a signed
\* column holds negatives) for the integer types and BIT, text for the rest
RawChoices(col) ==
    CASE col.sql_type.caster = "int" -> {PyInt(<<0, 1>>), PyInt(<<0, -1>>)}
      [] col.sql_type.caster = "bool" -> {PyInt(<<0, 0>>), PyInt(<<0, 1>>)}
      [] col.sql_type.caster = "float" -> {PyFloat(2)}
      [] OTHER -> {PyStr("A")}

\* What fetchall() may return for a statement over cols: rows of one raw value per column
RowChoices(cols) ==
    SeqsUpTo({row \in [1..Len(cols) -> UNION {RawChoices(cols[i]) : i \in 1..Len(cols)}] :
                 \A i \in 1..Len(cols) : row[i] \in RawChoices(cols[i])}, MaxRows)

\* Where.get_value
Where_get_value(w) == "WHERE " \o w.value

\* EasyTable.get_column(target): the column of that name
get_column(name) == CHOOSE i \in 1..Len(columns) : columns[i].name = name

\* EasyTable.assert_columns(columns) raises ValueError at a name the table lacks
assert_columns_raises(names) == \E i \in 1..Len(names) : names[i] \notin ColumnNames(columns)

\* EasyTable.assert_columns(columns)
assert_columns(names) == [i \in 1..Len(names) |-> columns[get_column(names[i])]]

\* The builders' _set(**attributes): the builder with the attribute set
Builder_set(bld, attribute, value) == [bld EXCEPT ![attribute] = value]

ColumnNameSeq(cols) == [i \in 1..Len(cols) |-> cols[i].name]

\* Select.get_value
Select_get_value(bld) ==
    Join(<<"SELECT " \o (IF bld.columns # <<>> THEN Join(ColumnNameSeq(bld.columns), ", ") ELSE "*"),
           "FROM " \o TableName>>
         \o (IF ~bld.where.none THEN <<Where_get_value(bld.where)>> ELSE <<>>), " ") \o ";"

\* SelectData(table, item, columns): dict(zip(columns, data_array))
SelectData(item, cols) == [i \in 1..Len(cols) |-> [column |-> cols[i].name, value |-> item[i]]]

\* (mutant) the result of Commands.py's Select: None for no row, in either mode
Select_shape_legacy(force_one, n) ==
    IF n = 0 THEN "None" ELSE IF n = 1 \/ force_one THEN "SelectData" ELSE "list"

\* Select.execute: the shape of what it returns for new_result
Select_shape(force_one, n) ==
    IF force_one THEN (IF n > 0 THEN "SelectData" ELSE "None")
    ELSE IF n = 0 THEN "EmptySelectData"
    ELSE IF n = 1 THEN "SelectData"
    ELSE "list"

\* Select.execute: the rows in what it returns
Select_rows(force_one, new_result) ==
    IF force_one THEN (IF new_result # <<>> THEN <<new_result[1]>> ELSE <<>>)
    ELSE new_result

\* (mutant) only too many values are refused
LengthMismatch_short(bld) == Len(bld.columns) < Len(bld.values)

\* value-count check of Insert.get_value and Update.get_value
LengthMismatch(bld) == Len(bld.columns) # Len(bld.values)

\* zip(self._columns, self._values) stops at the shorter of the two
ZipLen(bld) == IF Len(bld.columns) < Len(bld.values) THEN Len(bld.columns) ELSE Len(bld.values)

\* column.parse(value) raises for some zipped pair
ParseRaises(bld) ==
    \E i \in 1..ZipLen(bld) : Parse(bld.columns[i].sql_type, bld.values[i]).raised # "none"

\* [column.parse(value) for column, value in zip(...)]
ParsedValues(bld) ==
    [i \in 1..ZipLen(bld) |-> Parse(bld.columns[i].sql_type, bld.values[i]).val.s]

\* Insert.get_value, once the lengths match and the values parse
Insert_get_value(bld) ==
    "INSERT INTO " \o TableName \o " (" \o Join(ColumnNameSeq(bld.columns), ", ") \o ") VALUES ("
    \o Join(ParsedValues(bld), ", ") \o ")"
    \o (IF bld.update
        THEN " ON DUPLICATE KEY UPDATE "
             \o Join([i \in 1..ZipLen(bld) |->
                        bld.columns[i].name \o "=" \o ParsedValues(bld)[i]], ", ")
        ELSE "")
    \o ";"

\* Update.get_value, once the lengths match and the values parse:
\*   f"UPDATE ... SET {set_command}" + f' {where};' if self._where else ";"
\* the conditional takes the whole sum as its first branch
Update_get_value(bld) ==
    IF ~bld.where.none
    THEN "UPDATE " \o TableName \o " SET "
         \o Join([i \in 1..ZipLen(bld) |->
                    bld.columns[i].name \o " = " \o ParsedValues(bld)[i]], ", ")
         \o " " \o Where_get_value(bld.where) \o ";"
    ELSE ";"

\* (mutant) the conditional left unparenthesized, as in Update.get_value
Delete_get_value_unparenthesized(bld) ==
    IF ~bld.where.none
    THEN "DELETE FROM " \o TableName \o " " \o Where_get_value(bld.where) \o ";"
    ELSE ";"

\* Delete.get_value: f"DELETE FROM {name}" + (f' {where};' if self._where else ";")
Delete_get_value(bld) ==
    "DELETE FROM " \o TableName
    \o (IF ~bld.where.none THEN " " \o Where_get_value(bld.where) \o ";" ELSE ";")

\* (mutant) the guard tests for a Where that is set
SafetyViolation_inverted(bld) == safe /\ ~bld.where.none

\* the guard of Update.execute and Delete.execute:
\*   self._database.safe and self._where is None
SafetyViolation(bld) == safe /\ bld.where.none

\* (mutant) the asserts are gone
AssertPrepared_stripped == TRUE

\* the assert of EasyTable.select / insert / update / delete
AssertPrepared == prepared

TableFrame == UNCHANGED <<safe, dbExists, dbCols, dbCollation, columns, bound, charset, prepared>>

\* A builder operation that touches no driver: it raised, or it left bld in hand
Built(op, raised, bld) ==
    /\ b' = (IF raised = "none" THEN bld ELSE b)
    /\ ret' = Returned(op, raised, "", <<>>)
    /\ log' = <<>>
    /\ fetched' = <<>>
    /\ TableFrame
    /\ UNCHANGED <<tvars, xvars>>

\* An execute(): the exception that left it, what it returned, its driver log
Executed(op, raised, shape, rows, events, answer) ==
    /\ ret' = Returned(op, raised, shape, rows)
    /\ log' = events
    /\ fetched' = answer
    /\ UNCHANGED b
    /\ TableFrame
    /\ UNCHANGED <<tvars, xvars>>

\* EasyTable.select(*columns)
TableSelect(names) ==
    IF ~AssertPrepared THEN Built("table.select", "AssertionError", b)
    ELSE IF assert_columns_raises(names) THEN Built("table.select", "ValueError", b)
    ELSE Built("table.select", "none",
               [NoBuilder EXCEPT !.kind = "select", !.columns = assert_columns(names)])

\* EasyTable.insert(*values)
TableInsert(values) ==
    IF ~AssertPrepared THEN Built("table.insert", "AssertionError", b)
    ELSE Built("table.insert", "none",
               [NoBuilder EXCEPT !.kind = "insert", !.columns = columns, !.values = values,
                                 !.update = TRUE])

\* EasyTable.update(*columns)
TableUpdate(names) ==
    IF ~AssertPrepared THEN Built("table.update", "AssertionError", b)
    ELSE IF assert_columns_raises(names) THEN Built("table.update", "ValueError", b)
    ELSE Built("table.update", "none",
               [NoBuilder EXCEPT !.kind = "update", !.columns = assert_columns(names)])

\* EasyTable.delete(where)
TableDelete(w) ==
    IF ~AssertPrepared THEN Built("table.delete", "AssertionError", b)
    ELSE Built("table.delete", "none", [NoBuilder EXCEPT !.kind = "delete", !.where = w])

\* Select.where / Update.where
SetWhere(w) ==
    /\ b.kind \in {"select", "update"}
    /\ Built("where", "none", Builder_set(b, "where", w))

\* Select.just_one
JustOne ==
    /\ b.kind = "select"
    /\ Built("just_one", "none", Builder_set(b, "force_one", TRUE))

\* Insert.into(*columns)
Into(names) ==
    /\ b.kind = "insert"
    /\ IF assert_columns_raises(names) THEN Built("into", "ValueError", b)
       ELSE Built("into", "none", Builder_set(b, "columns", assert_columns(names)))

\* Insert.do_not_update
DoNotUpdate ==
    /\ b.kind = "insert"
    /\ Built("do_not_update", "none", Builder_set(b, "update", FALSE))

\* Update.to(*values)
To(values) ==
    /\ b.kind = "update"
    /\ Built("to", "none", Builder_set(b, "values", values))

\* Select.execute()
SelectExecute(rows, mode) ==
    /\ b.kind = "select"
    /\ LET r == Database_execute(Stmt("SELECT", Select_get_value(b)), FALSE, FALSE, mode)
           cols == IF b.columns # <<>> THEN b.columns ELSE columns
           new_result == [i \in 1..Len(rows) |-> SelectData(rows[i], cols)]
       IN  IF r.raised # "none" THEN Executed("select.execute", r.raised, "", <<>>, r.log, <<>>)
           ELSE Executed("select.execute", "none", Select_shape(b.force_one, Len(new_result)),
                         Select_rows(b.force_one, new_result), r.log, rows)

\* Insert.execute()
InsertExecute(mode) ==
    /\ b.kind = "insert"
    /\ IF LengthMismatch(b) \/ ParseRaises(b)            \* get_value raises: execute is not called
       THEN Executed("insert.execute", "ValueError", "", <<>>, <<>>, <<>>)
       ELSE LET r == Database_execute(Stmt("INSERT", Insert_get_value(b)), TRUE, TRUE, mode) IN
            Executed("insert.execute", r.raised, "", <<>>, r.log, <<>>)

\* Update.execute()
UpdateExecute(mode) ==
    /\ b.kind = "update"
    /\ IF SafetyViolation(b)
       THEN Executed("update.execute", "DatabaseSafetyException", "", <<>>, <<>>, <<>>)
       ELSE IF LengthMismatch(b) \/ ParseRaises(b)
       THEN Executed("update.execute", "ValueError", "", <<>>, <<>>, <<>>)
       ELSE LET r == Database_execute(Stmt("UPDATE", Update_get_value(b)), TRUE, TRUE, mode) IN
            Executed("update.execute", r.raised, "", <<>>, r.log, <<>>)

\* Delete.execute()
DeleteExecute(mode) ==
    /\ b.kind = "delete"
    /\ IF SafetyViolation(b)
       THEN Executed("delete.execute", "DatabaseSafetyException", "", <<>>, <<>>, <<>>)
       ELSE LET r == Database_execute(Stmt("DELETE", Delete_get_value(b)), TRUE, TRUE, mode) IN
            Executed("delete.execute", r.raised, "", <<>>, r.log, <<>>)

\* (mutant) get_value applies the guard of execute
get_value_raises_guarded(bld) ==
    IF bld.kind \in {"update", "delete"} /\ SafetyViolation(bld) THEN "DatabaseSafetyException"
    ELSE IF bld.kind = "update" /\ (LengthMismatch(bld) \/ ParseRaises(bld)) THEN "ValueError"
    ELSE "none"

\* What get_value raises: Update.get_value compares the lengths and parses the
\* values; Select.get_value and Delete.get_value only format
get_value_raises(bld) ==
    IF bld.kind = "update" /\ (LengthMismatch(bld) \/ ParseRaises(bld)) THEN "ValueError"
    ELSE "none"

\* get_value() of the Select, Update or Delete in hand; the text it returns is
\* the one element of ret.rows
GetValue ==
    /\ b.kind \in {"select", "update", "delete"}
    /\ LET raised == get_value_raises(b)
           text == CASE b.kind = "select" -> Select_get_value(b)
                     [] b.kind = "update" -> Update_get_value(b)
                     [] OTHER -> Delete_get_value(b)
       IN  IF raised # "none" THEN Executed("get_value", raised, "", <<>>, <<>>, <<>>)
           ELSE Executed("get_value", "none", "str", <<text>>, <<>>, <<>>)

\* (mutant) once removed, the guard stays removed
RemoveSafety_sticky(confirm) ==
    /\ safe' = (safe /\ ~confirm)
    /\ ret' = Returned("remove_safety", "none", "", <<>>)
    /\ log' = <<>>
    /\ fetched' = <<>>
    /\ UNCHANGED <<dbExists, dbCols, dbCollation, columns, bound, charset, prepared, b>>
    /\ UNCHANGED <<tvars, xvars>>

\* EasyDatabase.remove_safety(confirm=...)
RemoveSafety(confirm) ==
    /\ safe' = ~confirm
    /\ ret' = Returned("remove_safety", "none", "", <<>>)
    /\ log' = <<>>
    /\ fetched' = <<>>
    /\ UNCHANGED <<dbExists, dbCols, dbCollation, columns, bound, charset, prepared, b>>
    /\ UNCHANGED <<tvars, xvars>>

\* The executes one call of prepare() may make: SHOW, CREATE or DESCRIBE, the
\* collation query, the charset ALTER
PrepareCalls == 1..4

\* The driver's answers to them; prepare() ends at a failed SHOW, CREATE or
\* DESCRIBE, so the answers after one are never asked for
PrepareModes ==
    {m \in [PrepareCalls -> Modes] :
        /\ m[1] # "ok" => m[2] = "ok"
        /\ (m[1] # "ok" \/ m[2] # "ok") => (m[3] = "ok" /\ m[4] = "ok")}

\* EasyTable.prepare()
Prepare(m) ==
    LET st == prepare(m) IN
    /\ columns' = st.columns
    /\ bound' = st.bound
    /\ charset' = st.charset
    /\ prepared' = st.prepared
    /\ dbExists' = st.dbExists
    /\ dbCols' = st.dbCols
    /\ dbCollation' = st.dbCollation
    /\ log' = st.log
    /\ ret' = Returned("prepare", st.raised, "", <<>>)
    /\ fetched' = <<>>
    /\ UNCHANGED <<safe, b>>
    /\ UNCHANGED <<tvars, xvars>>

Next ==
    \/ \E confirm \in BOOLEAN : RemoveSafety(confirm)
    \/ \E names \in ColumnChoices : TableSelect(names)
    \/ \E values \in ValueChoices : TableInsert(values)
    \/ \E names \in ColumnChoices : TableUpdate(names)
    \/ \E w \in WhereChoices : TableDelete(w)
    \/ \E w \in WhereChoices : SetWhere(w)
    \/ JustOne
    \/ \E names \in ColumnChoices : Into(names)
    \/ DoNotUpdate
    \/ \E values \in ValueChoices : To(values)
    \/ \E mode \in Modes, rows \in RowChoices(IF b.columns # <<>> THEN b.columns ELSE columns) :
            SelectExecute(rows, mode)
    \/ \E mode \in Modes : InsertExecute(mode)
    \/ \E mode \in Modes : UpdateExecute(mode)
    \/ \E mode \in Modes : DeleteExecute(mode)
    \/ GetValue

Spec == Init /\ [][Next]_vars

NextPrepare ==
    \/ \E m \in PrepareModes : Prepare(m)
    \/ TableSelect(<<>>)
    \/ TableInsert(<<>>)
    \/ TableUpdate(<<>>)
    \/ TableDelete(NoWhere)

SpecPrepare == InitPrepare /\ [][NextPrepare]_vars

\* The main model's variables while SpecTypes runs
MainIdle ==
    /\ safe = TRUE /\ columns = <<>> /\ charset = NoCharset /\ prepared = FALSE /\ bound = {}
    /\ dbExists = FALSE /\ dbCols = <<>> /\ dbCollation = "latin1_swedish_ci"
    /\ b = NoBuilder /\ ret = Returned("init", "none", "", <<>>) /\ log = <<>> /\ fetched = <<>>

InitTypes == TyInit /\ MainIdle /\ XIdle

\* SQLType.cast(value) on the probe
TyCast ==
    /\ tyOp = "none"
    /\ tyOp' = "cast"
    /\ tyRet' = Cast(tyT, tyX)
    /\ UNCHANGED <<tyT, tyX>>
    /\ UNCHANGED <<mvars, xvars>>

\* SQLType.parse(value) on the probe
TyParse ==
    /\ tyOp = "none"
    /\ tyOp' = "parse"
    /\ tyRet' = Parse(tyT, tyX)
    /\ UNCHANGED <<tyT, tyX>>
    /\ UNCHANGED <<mvars, xvars>>

\* SQLType.cast applied to what cast returned for the probe
TyRecast ==
    /\ tyOp = "cast" /\ tyRet.raised = "none"
    /\ tyOp' = "cast.cast"
    /\ tyRet' = Cast(tyT, tyRet.val)
    /\ UNCHANGED <<tyT, tyX>>
    /\ UNCHANGED <<mvars, xvars>>

\* SQLType.parse applied to what cast returned for the probe
TyParseCast ==
    /\ tyOp = "cast" /\ tyRet.raised = "none"
    /\ tyOp' = "cast.parse"
    /\ tyRet' = Parse(tyT, tyRet.val)
    /\ UNCHANGED <<tyT, tyX>>
    /\ UNCHANGED <<mvars, xvars>>

\* EasyColumn('c', sql_type, *tags, default=value) on the probe: its default
TyColumn(tags) ==
    /\ tyOp = "none"
    /\ tyOp' = (IF InSeq(NOT_NULL, tags) THEN "column NOT NULL" ELSE "column")
    /\ tyRet' = Ok(EasyColumn("c", tyT, tags, tyX).default)
    /\ UNCHANGED <<tyT, tyX>>
    /\ UNCHANGED <<mvars, xvars>>

\* The parameters a modifiable type is called with (none: the registered type itself)
ParamChoices == {<<>>, <<100>>, <<10, 2>>}

\* Type strings DESCRIBE reports that have no registry entry
UnknownNames == {"datetime", "text", "timestamp(6)"}

\* string_to_type on the lower-cased name of the probe type, or of the type
\* called with parameters
TyStringToType(params) ==
    /\ tyOp = "none"
    /\ params # <<>> => tyT.modifiable
    /\ LET T == IF params = <<>> THEN tyT ELSE TypeCall(tyT, params) IN
       /\ tyOp' = "string_to_type"
       /\ tyRet' = [raised |-> "none", val |-> string_to_type(Lower(TypeName(T))), arg |-> T]
    /\ UNCHANGED <<tyT, tyX>>
    /\ UNCHANGED <<mvars, xvars>>

\* describe_table over a table of one column whose reported type is string
TyDescribeTable(string) ==
    /\ tyOp = "none"
    /\ tyOp' = "describe_table"
    /\ LET rows == <<DescribeRow("c", string, "YES", "", PyNone)>> IN
       tyRet' = IF describe_unrecognized(rows)
                THEN [raised |-> TypeRecognitionError, val |-> <<>>, arg |-> string]
                ELSE [raised |-> "none", val |-> describe_columns(rows), arg |-> string]
    /\ UNCHANGED <<tyT, tyX>>
    /\ UNCHANGED <<mvars, xvars>>

NextTypes ==
    \/ TyCast \/ TyParse \/ TyRecast \/ TyParseCast
    \/ \E params \in ParamChoices : TyStringToType(params)
    \/ \E string \in UnknownNames \cup {Lower(TypeName(tyT))} : TyDescribeTable(string)
    \/ \E tags \in {<<>>, <<NOT_NULL>>, <<AUTO_INCREMENT>>} : TyColumn(tags)

SpecTypes == InitTypes /\ [][NextTypes]_vars

(***************************************************************************)
(* SpecWhere: the Where algebra (Where.py).                                *)
(*                                                                         *)
(* heap holds every Where object in the order it was constructed; an       *)
(* operand is named by its position.  The caller starts with two           *)
(* conditions built from columns.                                          *)
(***************************************************************************)
MaxWheres == 4

\* (mutant) the operands joined without the outer parentheses
Where_AND_bare(self, other) == Where(self.value \o " AND " \o other.value)

\* Where.AND(other)
Where_AND(self, other) == Where("(" \o self.value \o " AND " \o other.value \o ")")

\* Where.OR(other)
Where_OR(self, other) == Where("(" \o self.value \o " OR " \o other.value \o ")")

\* Where.NOT()
Where_NOT(self) == Where("NOT " \o self.value)

WhereReturned(op, a, c, text) == [op |-> op, a |-> a, b |-> c, text |-> text]

InitWhere ==
    /\ TyIdle /\ MainIdle /\ ConnectIdle /\ ExecuteIdle
    /\ heap = <<WhereIsEqual(ID, PyInt(<<0, 1>>)), WhereIsEqual(Name, PyStr("A"))>>
    /\ whRet = WhereReturned("none", 0, 0, "")

\* A combinator returned the Where object w
WhereBuilt(op, i, j, w) ==
    /\ Len(heap) < MaxWheres
    /\ heap' = Append(heap, w)
    /\ whRet' = WhereReturned(op, i, j, w.value)
    /\ UNCHANGED <<tvars, mvars, cvars, evars>>

WhereAND(i, j) == WhereBuilt("AND", i, j, Where_AND(heap[i], heap[j]))

WhereOR(i, j) == WhereBuilt("OR", i, j, Where_OR(heap[i], heap[j]))

WhereNOT(i) == WhereBuilt("NOT", i, 0, Where_NOT(heap[i]))

\* Where.get_value() of the i-th object
WhereGetValue(i) ==
    /\ whRet' = WhereReturned("get_value", i, 0, Where_get_value(heap[i]))
    /\ UNCHANGED heap
    /\ UNCHANGED <<tvars, mvars, cvars, evars>>

NextWhere ==
    \/ \E i, j \in 1..Len(heap) : WhereAND(i, j)
    \/ \E i, j \in 1..Len(heap) : WhereOR(i, j)
    \/ \E i \in 1..Len(heap) : WhereNOT(i)
    \/ \E i \in 1..Len(heap) : WhereGetValue(i)

SpecWhere == InitWhere /\ [][NextWhere]_vars

(***************************************************************************)
(* SpecConnect: EasyDatabase._connect and EasyDatabase.connection.         *)
(*                                                                         *)
(* A handle is alive until the connection is lost and dead from then on;   *)
(* is_connected() of a handle is whether it is alive.  One connect attempt *)
(* meets a driver that returns a connected handle ("ok"), returns a handle *)
(* that is not connected ("unconnected"), raises from connect ("refused",  *)
(* _connection keeps its old value) or, with a charset configured, raises  *)
(* from set_charset_collation after the handle was stored ("charset").     *)
(***************************************************************************)
MaxAttempts == 4

\* _ordinal(i)
ordinal(i) ==
    IF 10 < i % 100 /\ i % 100 < 20 THEN ToString(i) \o "th"
    ELSE CASE i % 10 = 1 -> ToString(i) \o "st"
           [] i % 10 = 2 -> ToString(i) \o "nd"
           [] i % 10 = 3 -> ToString(i) \o "rd"
           [] OTHER -> ToString(i) \o "th"

\* __init_subclass__: _safe_pop(kwargs, key) or getattr(cls, f'_{key}'); the
\* keyword is "absent", "True" or "False"
Harvest(keyword, attribute) == IF keyword = "True" THEN TRUE ELSE attribute

AttemptOutcomes == {"ok", "unconnected", "refused", "charset"}

\* self._connection is None or not self._connection.is_connected()
NotConnected == connection # "alive"

InitConnect ==
    /\ TyIdle /\ MainIdle /\ WhereIdle /\ ExecuteIdle
    /\ \E keyword \in {"absent", "True", "False"}, attribute \in BOOLEAN :
         auto_connect = Harvest(keyword, attribute)
    /\ dbCharset \in {NoCharset, Utf8mb4}
    /\ connection = "None"                               \* EasyDatabase.__init__
    /\ cpc = "idle" /\ attempt = 1 /\ tries = 0 /\ sleeps = 0 /\ logged = "" /\ cres = "none"

ConnectFrame == UNCHANGED <<auto_connect, dbCharset>> /\ UNCHANGED <<tvars, mvars, wvars, evars>>

\* EasyDatabase.connection, entered: a connected handle is returned at once,
\* otherwise _connect() is called (attempt=1)
ConnectionGet ==
    /\ cpc = "idle"
    /\ IF NotConnected
       THEN /\ cpc' = "loop" /\ attempt' = 1 /\ tries' = 0 /\ sleeps' = 0 /\ logged' = ""
            /\ cres' = "pending"
       ELSE /\ cres' = "handle" /\ tries' = 0 /\ sleeps' = 0 /\ logged' = ""
            /\ UNCHANGED <<cpc, attempt>>
    /\ UNCHANGED connection
    /\ ConnectFrame

\* (mutant) the loop goes on after a failed attempt whatever _auto_connect is
LoopContinues_always(failed) == failed

\* (mutant) the loop ends after its first pass
LoopContinues_never(failed) == FALSE

\* after an attempt: the loop sleeps and comes round again
LoopContinues(failed) == failed /\ auto_connect

\* One pass of the while loop of _connect: the log record, connect, the
\* is_connected() test, and the finally clause
Attempt(outcome) ==
    /\ cpc = "loop"
    /\ attempt <= MaxAttempts
    /\ outcome = "charset" => dbCharset # NoCharset
    /\ logged' = ordinal(attempt)
    /\ tries' = tries + 1
    /\ connection' = CASE outcome \in {"ok", "charset"} -> "alive"
                       [] outcome = "unconnected" -> "dead"
                       [] OTHER -> connection
    /\ attempt' = attempt + 1
    /\ cpc' = IF LoopContinues(outcome # "ok") THEN "sleep" ELSE "check"
    /\ UNCHANGED <<sleeps, cres>>
    /\ ConnectFrame

\* sleep(self._auto_connect_delay), then the loop condition
Sleep ==
    /\ cpc = "sleep"
    /\ sleeps' = sleeps + 1
    /\ cpc' = "loop"
    /\ UNCHANGED <<connection, attempt, tries, logged, cres>>
    /\ ConnectFrame

\* EasyDatabase.connection after _connect() returned: the second test
ConnectionCheck ==
    /\ cpc = "check"
    /\ cres' = IF NotConnected THEN "DatabaseConnectionException" ELSE "handle"
    /\ cpc' = "idle"
    /\ UNCHANGED <<connection, attempt, tries, sleeps, logged>>
    /\ ConnectFrame

\* The driver's side: the connection is lost
ConnectionLost ==
    /\ connection = "alive"
    /\ connection' = "dead"
    /\ UNCHANGED <<cpc, attempt, tries, sleeps, logged, cres>>
    /\ ConnectFrame

\* The steps the calling thread takes by itself
ConnectStep == (\E outcome \in AttemptOutcomes : Attempt(outcome)) \/ Sleep \/ ConnectionCheck

NextConnect == ConnectionGet \/ ConnectStep \/ ConnectionLost

\* The calling thread runs: a blocking call goes on to its next step
SpecConnect == InitConnect /\ [][NextConnect]_vars /\ WF_vars(ConnectStep)

(***************************************************************************)
(* SpecExecute: one EasyDatabase.execute call at a time, step by step,      *)
(* against a connection that may drop between any two steps.  A connection *)
(* is known by its number: every successful mysql.connector.connect gives  *)
(* the next one.                                                           *)
(***************************************************************************)
MaxConnections == 3

\* Who calls execute(), and with which buffered and auto_commit
Callers ==
    {[op |-> "Select.execute", buffered |-> FALSE, auto_commit |-> FALSE],
     [op |-> "Insert.execute", buffered |-> FALSE, auto_commit |-> TRUE],
     [op |-> "describe_table", buffered |-> TRUE, auto_commit |-> TRUE]}

\* What _connect() may come to when the connection property calls it: "ok" a
\* fresh connection, "refused" none (the single attempt without auto_connect),
\* "lost" a fresh connection that drops before the property's second test
ConnectOutcomes == {"ok", "refused", "lost"}

\* The connection property: the exception it raises, else the connection it
\* returns, and what _connection then is
ExConnection(outcome) ==
    IF exConnection # 0 /\ exAlive
    THEN [raised |-> "none", conn |-> exConnection, alive |-> TRUE]
    ELSE CASE outcome = "ok" -> [raised |-> "none", conn |-> exConnection + 1, alive |-> TRUE]
           [] outcome = "lost" -> [raised |-> "DatabaseConnectionException",
                                   conn |-> exConnection + 1, alive |-> FALSE]
           [] OTHER -> [raised |-> "DatabaseConnectionException",
                        conn |-> exConnection, alive |-> exAlive]

\* The outcomes _connect() can have here: it only gives up without auto_connect
ConnectCan(outcome) ==
    \/ exConnection # 0 /\ exAlive
    \/ outcome = "refused" /\ ~auto_connect
    \/ outcome # "refused" /\ exConnection < MaxConnections

ExEvent(ev, conn, ok) == [ev |-> ev, conn |-> conn, ok |-> ok]

\* (mutant) execute() commits whatever auto_commit is
CommitDue_always(call) == TRUE

\* `if auto_commit:` in execute()
CommitDue(call) == call.auto_commit

ExecuteFrame == UNCHANGED <<tvars, mvars, wvars, cvars>>

InitExecute ==
    /\ TyIdle /\ MainIdle /\ WhereIdle /\ ExecuteIdle
    /\ auto_connect \in BOOLEAN
    /\ dbCharset = [name |-> "", collation |-> ""] /\ connection = "None"
    /\ cpc = "idle" /\ attempt = 1 /\ tries = 0 /\ sleeps = 0 /\ logged = "" /\ cres = "none"

\* execute(operation, params, buffered, auto_commit): the cursor is obtained
ExecuteCall(call, outcome) ==
    /\ exPc = "idle"
    /\ ConnectCan(outcome)
    /\ LET c == ExConnection(outcome) IN
       /\ exCall' = call
       /\ exConnection' = c.conn
       /\ exAlive' = c.alive
       /\ IF c.raised # "none"
          THEN /\ exRet' = c.raised /\ exPc' = "idle" /\ exCursor' = 0 /\ exLog' = <<>>
          ELSE /\ exRet' = "none" /\ exPc' = "execute" /\ exCursor' = c.conn
               /\ exLog' = <<ExEvent("cursor", c.conn, TRUE)>>
    /\ ExecuteFrame

\* cursor.execute(operation, params): it raises on a dropped connection, and may raise on a live one
CursorExecute(ok) ==
    /\ exPc = "execute"
    /\ ok => exAlive
    /\ exLog' = Append(exLog, ExEvent("execute", exCursor, ok))
    /\ IF ok THEN exPc' = (IF CommitDue(exCall) THEN "commit" ELSE "return") /\ exRet' = exRet
             ELSE exPc' = "idle" /\ exRet' = "DriverError"
    /\ UNCHANGED <<exConnection, exAlive, exCall, exCursor>>
    /\ ExecuteFrame

\* self.commit(): self.connection.commit()
Commit(outcome) ==
    /\ exPc = "commit"
    /\ ConnectCan(outcome)
    /\ LET c == ExConnection(outcome) IN
       /\ exConnection' = c.conn
       /\ exAlive' = c.alive
       /\ IF c.raised # "none"
          THEN exRet' = c.raised /\ exPc' = "idle" /\ exLog' = exLog
          ELSE exRet' = exRet /\ exPc' = "return"
               /\ exLog' = Append(exLog, ExEvent("commit", c.conn, TRUE))
    /\ UNCHANGED <<exCall, exCursor>>
    /\ ExecuteFrame

\* return cursor
ExecuteReturn ==
    /\ exPc = "return"
    /\ exPc' = "idle"
    /\ exRet' = "cursor"
    /\ UNCHANGED <<exConnection, exAlive, exCall, exCursor, exLog>>
    /\ ExecuteFrame

\* The server or the network drops the connection
ExConnectionLost ==
    /\ exConnection # 0 /\ exAlive
    /\ exAlive' = FALSE
    /\ UNCHANGED <<exConnection, exPc, exCall, exCursor, exLog, exRet>>
    /\ ExecuteFrame

NextExecute ==
    \/ \E call \in Callers, outcome \in ConnectOutcomes : ExecuteCall(call, outcome)
    \/ \E ok \in BOOLEAN : CursorExecute(ok)
    \/ \E outcome \in ConnectOutcomes : Commit(outcome)
    \/ ExecuteReturn
    \/ ExConnectionLost

SpecExecute == InitExecute /\ [][NextExecute]_vars

(***************************************************************************)
(* The claims.                                                             *)
(***************************************************************************)
DriverFailures == {"DatabaseConnectionException", "DriverError"}

\* the operation sent the driver a statement of one of these kinds
SentKind(events, kinds) ==
    \E i \in 1..Len(events) : events[i].ev = "execute" /\ events[i].kind \in kinds

\* C1: an Update or Delete with no Where, executed while the database's safe
\* flag is true, raises DatabaseSafetyException, and nothing reaches the
\* driver: no statement, no commit.
C1_SafetyGuard ==
    (ret.op \in {"update.execute", "delete.execute"} /\ b.where.none /\ safe)
        => (ret.raised = "DatabaseSafetyException" /\ log = <<>>)

C1_Witness ==
    /\ ret.op = "update.execute" /\ b.kind = "update" /\ b.where.none /\ safe
    /\ ret.raised = "DatabaseSafetyException"

\* C2: with the safety removed, executing a Delete with no Where on the
\* prepared table raises nothing but what the driver raises, and what it
\* sends is exactly DELETE FROM <table>; (buffered, then committed).
C2_DeleteWithoutWhere ==
    (ret.op = "delete.execute" /\ b.where.none /\ ~safe)
        => /\ prepared
           /\ ret.raised \in {"none"} \cup DriverFailures
           /\ \A i \in 1..Len(log) : log[i].ev = "execute" => log[i].text = "DELETE FROM MyTable;"
           /\ ret.raised = "none"
                => (Len(log) = 2 /\ log[1].ev = "execute" /\ log[1].text = "DELETE FROM MyTable;"
                    /\ log[2].ev = "commit")

C2_Witness ==
    ret.op = "delete.execute" /\ b.where.none /\ ~safe /\ ret.raised = "none" /\ Len(log) = 2

\* C3 (as claimed): with the safety removed, an Update with matching columns
\* and values and no Where that executes sends
\* UPDATE <table> SET <col> = <parsed value>, ...;
C3_UpdateWithoutWhere ==
    (ret.op = "update.execute" /\ b.where.none /\ ~safe /\ ret.raised = "none")
        => /\ Len(log) >= 1
           /\ log[1].text = "UPDATE MyTable SET "
                            \o Join([i \in 1..Len(b.columns) |->
                                       b.columns[i].name \o " = "
                                       \o Parse(b.columns[i].sql_type, b.values[i]).val.s], ", ")
                            \o ";"

TableOps == {"table.select", "table.insert", "table.update", "table.delete"}

\* C4 (as claimed): a table entry point returns a builder only when prepared
\* is true, and after any prepare() call that raised prepared is false.
C4_Original ==
    /\ (ret.op \in TableOps /\ ret.raised = "none") => prepared
    /\ (ret.op = "prepare" /\ ret.raised # "none") => ~prepared

\* C4 (amended): a table entry point returns a builder only when prepared is
\* true; prepared is false from construction, changes only by becoming true
\* in a prepare() call that returns normally, and a prepare() call that raised
\* leaves it as it was.
C4_PreparedGate ==
    /\ ~prepared
    /\ [][/\ (ret'.op \in TableOps /\ ret'.raised = "none") => (prepared /\ prepared')
          /\ prepared' # prepared => (prepared' /\ ret'.op = "prepare" /\ ret'.raised = "none")
          /\ (ret'.op = "prepare" /\ ret'.raised # "none") => prepared' = prepared
          /\ (ret'.op = "prepare" /\ ret'.raised = "none") => prepared']_vars

C4_Witness == b.kind = "select" /\ ret.op = "table.select" /\ ret.raised = "none" /\ prepared

\* the live table's columns, as describe_table gives them, are the declared ones
LiveMatchesDeclared ==
    /\ ~describe_unrecognized(dbCols)
    /\ ColumnSet(describe_columns(dbCols)) = ColumnSet(columns)

\* C5 (as claimed): prepare() on an existing table whose (name, type) set is
\* the declared one succeeds and sends no CREATE and no ALTER.
C5_Original ==
    [][(ret'.op = "prepare" /\ dbExists /\ LiveMatchesDeclared)
         => /\ ret'.raised \notin DriverFailures => ret'.raised = "none"
            /\ ~SentKind(log', {"CREATE", "ALTER"})]_vars

\* C5 (amended): prepare() on an existing table whose (name, type) set is the
\* declared one, in any order, succeeds unless the driver fails; it sends no
\* CREATE and nothing that alters a column; the one statement it may send
\* besides the existence query, DESCRIBE and the collation query is the
\* charset step's ALTER TABLE ... CONVERT TO CHARACTER SET, and not even that
\* when the table has no charset.
C5_MatchingSchema ==
    [][(ret'.op = "prepare" /\ dbExists /\ LiveMatchesDeclared)
         => /\ ret'.raised \notin DriverFailures => (ret'.raised = "none" /\ prepared')
            /\ ~SentKind(log', {"CREATE"})
            /\ charset = NoCharset => ~SentKind(log', {"ALTER"})
            /\ \A i \in 1..Len(log') :
                 log'[i].ev = "execute"
                   => \/ log'[i].kind \in {"SHOW", "DESCRIBE", "SELECT"}
                      \/ log'[i].text = "ALTER TABLE MyTable CONVERT TO CHARACTER SET utf8mb4"
                                        \o " COLLATE utf8mb4_general_ci;"]_vars

\* a prepare() that found the declared columns in another order in the live table
C5_Witness ==
    /\ ret.op = "prepare" /\ ret.raised = "none" /\ prepared
    /\ columns = <<ID, Name>> /\ dbCols = DescribeRowsOf(<<Name, ID>>)
    /\ SentKind(log, {"DESCRIBE"}) /\ ~SentKind(log, {"CREATE", "ALTER"})

\* the live table's columns are not the declared ones
LiveDiffersFromDeclared ==
    \/ describe_unrecognized(dbCols)
    \/ ColumnSet(describe_columns(dbCols)) # ColumnSet(columns)

\* C6 (as claimed): prepare() on an existing table whose (name, type) set
\* differs from a non-empty declared one raises the schema-mismatch error,
\* sends no CREATE and no ALTER, binds no column and leaves prepared false.
C6_Original ==
    [][(ret'.op = "prepare" /\ dbExists /\ Len(columns) > 0 /\ LiveDiffersFromDeclared)
         => /\ ret'.raised \notin DriverFailures => ret'.raised = SchemaMismatchError
            /\ ~SentKind(log', {"CREATE", "ALTER"})
            /\ bound' = bound
            /\ ~prepared']_vars

\* C6 (amended): such a prepare() raises: the schema-mismatch error, or the
\* type-recognition error when a live column's type string has no registered
\* SQLType (or the driver's own failure); it sends no CREATE and no ALTER,
\* binds no column and leaves prepared false.
C6_MismatchingSchema ==
    [][(ret'.op = "prepare" /\ dbExists /\ Len(columns) > 0 /\ LiveDiffersFromDeclared)
         => /\ ret'.raised # "none"
            /\ ret'.raised \notin DriverFailures
                 => ret'.raised = (IF describe_unrecognized(dbCols) THEN TypeRecognitionError
                                   ELSE SchemaMismatchError)
            /\ ~SentKind(log', {"CREATE", "ALTER"})
            /\ bound' = bound /\ bound' = {}
            /\ ~prepared']_vars

C6_Witness ==
    /\ ret.op = "prepare" /\ ret.raised = SchemaMismatchError
    /\ dbExists /\ Len(columns) > 0 /\ SentKind(log, {"DESCRIBE"}) /\ ~prepared

\* C7: Select.execute shapes its result by the row count n and the just-one
\* mode: no row gives the EmptySelectData marker (None in just-one mode), one
\* row the SelectData itself, several rows the list of their SelectData in
\* the driver's order (the first row's SelectData in just-one mode).
C7_SelectShape ==
    (ret.op = "select.execute" /\ ret.raised = "none")
        => LET n == Len(fetched)
               cols == IF b.columns # <<>> THEN b.columns ELSE columns
               \* ret.rows[i] is the SelectData of the driver's k-th row
               IsRow(i, k) ==
                   /\ Len(ret.rows[i]) = Len(cols)
                   /\ \A j \in 1..Len(cols) :
                        /\ ret.rows[i][j].column = cols[j].name
                        /\ ret.rows[i][j].value = fetched[k][j]
           IN  /\ (n = 0 /\ ~b.force_one) => (ret.shape = "EmptySelectData" /\ ret.rows = <<>>)
               /\ (n = 0 /\ b.force_one) => (ret.shape = "None" /\ ret.rows = <<>>)
               /\ n = 1 => (ret.shape = "SelectData" /\ Len(ret.rows) = 1 /\ IsRow(1, 1))
               /\ (n > 1 /\ ~b.force_one)
                    => (ret.shape = "list" /\ Len(ret.rows) = n /\ \A i \in 1..n : IsRow(i, i))
               /\ (n > 1 /\ b.force_one)
                    => (ret.shape = "SelectData" /\ Len(ret.rows) = 1 /\ IsRow(1, 1))

\* a Select that was given two differing rows and returned them as a list
C7_Witness ==
    /\ ret.op = "select.execute" /\ ret.raised = "none" /\ ~b.force_one
    /\ Len(fetched) = 2 /\ fetched[1] # fetched[2] /\ ret.shape = "list"

\* C8: an Insert whose number of values differs from the number of its bound
\* columns (the table's, or those given to into) raises ValueError at
\* execute(), and nothing reaches the driver.
C8_InsertCountMismatch ==
    (ret.op = "insert.execute" /\ Len(b.columns) # Len(b.values))
        => (ret.raised = "ValueError" /\ log = <<>>)

C8_Witness ==
    /\ ret.op = "insert.execute" /\ ret.raised = "ValueError"
    /\ b.columns # columns /\ Len(b.columns) > Len(b.values)

\* C9 (as claimed): for an integer type of bit width N, the UNSIGNED variant's
\* cast accepts exactly the integers of [0, 2^N - 1] and the base type's cast
\* exactly those of [-2^(N-1), 2^(N-1) - 1].
C9_IntegerCastRanges ==
    (tyOp = "cast" /\ tyX.t = "int" /\ tyT \in IntegerTypes \cup UnsignedTypes)
        => LET N == tyT.size
               lo == IF tyT \in UnsignedTypes THEN <<0, 0>> ELSE IntNeg(Pow2(N - 1))
               hi == IF tyT \in UnsignedTypes THEN IntSub(Pow2(N), 1) ELSE IntSub(Pow2(N - 1), 1)
           IN  (tyRet.raised = "none") <=> (IntLeq(lo, tyX.n) /\ IntLeq(tyX.n, hi))

\* C10 (as claimed): parse(None) of every registered SQLType is the SQL NULL
\* literal.
C10_ParseNone ==
    (tyOp = "parse" /\ tyX = PyNone)
        => (tyRet.raised = "none" /\ tyRet.val.s \in {"null", "NULL"})

\* C11: for every registered SQLType T and every value x that T.cast accepts,
\* T.parse(T.cast(x)) is T.parse(x), and T.cast(T.cast(x)) is T.cast(x).
C11_CastIdempotent ==
    /\ tyOp = "cast.parse" => tyRet = Parse(tyT, tyX)
    /\ tyOp = "cast.cast" => tyRet = Cast(tyT, tyX)

\* a cast that changed the value: the text "7" cast by an integer type
C11_Witness ==
    /\ tyOp = "cast.parse" /\ tyT = INT /\ tyX = PyStr("7")
    /\ tyRet = Ok(PyStr("7"))

\* C12: A.AND(B) renders as ( A AND B ), A.OR(B) as ( A OR B ) and A.NOT()
\* as NOT A, under any nesting; each combinator returns a new Where and
\* leaves the text of every Where built before, its operands included, as it
\* was; get_value() is WHERE followed by the text, and builds nothing.
C12_WhereCombinators ==
    [][LET r == whRet'
           A == heap[r.a].value
           B == heap[r.b].value
           \* the call returned a new object with this text; the others are as they were
           New(text) == heap' = Append(heap, Where(text)) /\ r.text = text
       IN  /\ r.op = "AND" => New("(" \o A \o " AND " \o B \o ")")
           /\ r.op = "OR" => New("(" \o A \o " OR " \o B \o ")")
           /\ r.op = "NOT" => New("NOT " \o A)
           /\ r.op = "get_value" => (heap' = heap /\ r.text = "WHERE " \o A)]_wvars

\* a double negation, and a combinator over a nested operand
C12_Witness ==
    /\ Len(heap) = 4
    /\ heap[3].value = "NOT ID = 1" /\ heap[4].value = "NOT NOT ID = 1"
    /\ whRet.op = "get_value" /\ whRet.text = "WHERE NOT NOT ID = 1"

\* C13: with auto-reconnect disabled and no connected handle to be had, a
\* request for the connection makes exactly one connect attempt, never
\* sleeps or retries, and raises DatabaseConnectionException.
C13_SingleAttempt ==
    /\ [](~auto_connect => (tries <= 1 /\ sleeps = 0 /\ cpc # "sleep"))
    /\ [][(~auto_connect /\ cpc = "loop") => (cpc' = "check" /\ tries' = 1 /\ logged' = "1st")]_cvars
    /\ [][(~auto_connect /\ cpc = "check" /\ NotConnected)
            => (cres' = "DatabaseConnectionException" /\ cpc' = "idle"
                /\ tries' = 1 /\ sleeps' = 0)]_cvars

C13_Witness ==
    /\ ~auto_connect /\ cpc = "idle" /\ cres = "DatabaseConnectionException"
    /\ tries = 1 /\ sleeps = 0 /\ connection = "None"

\* The ordinals of the log records, in order
OrdinalNames == <<"1st", "2nd", "3rd", "4th", "5th", "6th">>

\* the numbering, the sleeps and the silence of the loop under auto-reconnect
C14_LoopSafety ==
    /\ [][tries' = tries + 1 => logged' = OrdinalNames[tries']]_cvars
    /\ [](auto_connect => /\ cpc = "loop" => sleeps = tries
                          /\ cpc \in {"sleep", "check"} => sleeps = tries - 1
                          /\ cpc \in {"loop", "sleep", "check"} => cres = "pending")
    /\ [][(auto_connect /\ cpc = "loop" /\ cpc' = "check") => connection' = "alive"]_cvars

\* C14 (as claimed): with auto-reconnect enabled the attempts are numbered
\* 1, 2, 3, ..., each failed attempt is followed by one sleep, no error
\* reaches the caller while attempts fail, the loop exits exactly at the
\* first attempt that yields a connected handle, and once an attempt was
\* accepted the request returns a connected handle.
C14_Original ==
    /\ C14_LoopSafety
    /\ [][(auto_connect /\ cpc = "loop" /\ connection' = "alive") => cpc' = "check"]_cvars
    /\ [](auto_connect /\ cpc = "check" => <>(cpc = "idle" /\ cres = "handle"))

\* C14 (amended): the numbering, the sleeps and the silence as claimed; the
\* loop exits only at an attempt that left a connected handle, and at the
\* first such attempt when no charset is configured (with a charset, a
\* failure of the charset set-up after connect makes the attempt a failed
\* one); once the loop has exited the request returns: the handle if it is
\* still connected at the final test, DatabaseConnectionException if the
\* connection was lost in between.
C14_ReconnectLoop ==
    /\ C14_LoopSafety
    /\ [][(auto_connect /\ cpc = "loop" /\ connection' = "alive" /\ dbCharset = NoCharset)
            => cpc' = "check"]_cvars
    /\ [][(cpc = "check" /\ cpc' = "idle")
            => cres' = (IF connection = "alive" THEN "handle"
                        ELSE "DatabaseConnectionException")]_cvars
    /\ [](auto_connect /\ cpc = "check" => <>(cpc = "idle" /\ cres # "pending"))

\* the third attempt was accepted after two failed ones and two sleeps
C14_Witness ==
    /\ auto_connect /\ cpc = "idle" /\ cres = "handle"
    /\ tries = 3 /\ sleeps = 2 /\ logged = "3rd"

\* what C15 says of every get_value() call but its outcome: nothing reaches
\* the driver, no builder, table or database state changes, and a call
\* repeated at once gives what the call before gave
C15_Frame ==
    /\ log' = <<>>
    /\ UNCHANGED <<b, safe, columns, bound, charset, prepared, dbExists, dbCols, dbCollation>>
    /\ ret.op = "get_value" => ret' = ret
    /\ ret'.raised # "DatabaseSafetyException"
    /\ ret'.raised = "none" => (ret'.shape = "str" /\ Len(ret'.rows) = 1)

ReachesCharsetStep(m) ==
    /\ m[1] = "ok" /\ m[2] = "ok"
    /\ IF dbExists THEN columns = <<>> => ~describe_unrecognized(dbCols)
                   ELSE columns # <<>>
    /\ (dbExists /\ columns # <<>>) => LiveMatchesDeclared

\* C16: when the collation query or the ALTER TABLE ... CONVERT TO CHARACTER
\* SET fails during prepare(), nothing is raised: prepare() returns normally
\* with prepared true, and the table's charset attribute is what it was.
C16_CharsetFailureSwallowed ==
    [][\A m \in PrepareModes :
         (/\ Prepare(m)
          /\ charset # NoCharset
          /\ ReachesCharsetStep(m)
          /\ m[3] # "ok" \/ m[4] # "ok")
         => (ret'.raised = "none" /\ prepared' /\ charset' = charset)]_mvars

\* a prepare() whose ALTER was sent and failed: no commit follows it
C16_Witness ==
    /\ ret.op = "prepare" /\ ret.raised = "none" /\ prepared /\ charset = Utf8mb4
    /\ Len(log) > 0 /\ log[Len(log)].kind = "ALTER"

\* C17 (as claimed): in a prepare() with a charset, when the collation query
\* is answered and reports the desired collation for the live table, no
\* ALTER TABLE ... CONVERT TO CHARACTER SET is sent.
C17_AlterOnlyOnMismatch ==
    [][\A m \in PrepareModes :
         (/\ Prepare(m)
          /\ charset # NoCharset
          /\ dbExists /\ ReachesCharsetStep(m)
          /\ m[3] = "ok"
          /\ dbCollation = charset.collation)
         => ~SentKind(log', {"ALTER"})]_mvars

\* C18 (as claimed): every SelectData that Select.execute returns holds, for
\* each column used for the Select, that column's cast of the raw value the
\* driver gave at the column's position in the row.
C18_SelectDataCasts ==
    (ret.op = "select.execute" /\ ret.raised = "none")
        => LET cols == IF b.columns # <<>> THEN b.columns ELSE columns IN
           \A i \in 1..Len(ret.rows) : \A j \in 1..Len(cols) :
               LET c == Cast(cols[j].sql_type, fetched[i][j]) IN
               /\ c.raised = "none"
               /\ ret.rows[i][j].value = c.val

\* the CREATE TABLE statements among what an operation sent the driver
CreateCount(events) ==
    Cardinality({i \in 1..Len(events) : events[i].ev = "execute" /\ events[i].kind = "CREATE"})

\* C19: prepare() on an absent table. With a column declared it sends one
\* CREATE TABLE (never more) and, the driver answering the existence query and
\* the CREATE, returns with prepared true; with none declared it raises (the
\* no-columns ValueError once the existence query is answered), sends no
\* CREATE TABLE and leaves prepared false.
C19_AbsentTable ==
    [][\A m \in PrepareModes :
         (Prepare(m) /\ ~dbExists)
         => IF columns # <<>>
            THEN /\ CreateCount(log') <= 1
                 /\ (m[1] = "ok" /\ m[2] = "ok")
                      => /\ CreateCount(log') = 1
                         /\ log'[3].kind = "CREATE"
                         /\ ret'.raised = "none"
                         /\ prepared'
                         /\ dbExists'
            ELSE /\ CreateCount(log') = 0
                 /\ ret'.raised # "none"
                 /\ m[1] = "ok"
                      => ret'.raised = "ValueError: No columns where specified and table does not exist"
                 /\ ~prepared /\ ~prepared'
                 /\ ~dbExists']_mvars

\* a prepare() that created the table from the declared columns
C19_Witness ==
    /\ ret.op = "prepare" /\ ret.raised = "none" /\ prepared /\ dbExists
    /\ columns = <<ID, Name>> /\ CreateCount(log) = 1 /\ ~SentKind(log, {"DESCRIBE"})

\* C20 (as claimed): a column's effective default is the given default
\* whenever one is given (anything but None, so 0, False and '' too); with
\* none given it is the SQLType's default under NOT_NULL and None otherwise.
C20_EffectiveDefault ==
    (tyOp \in {"column", "column NOT NULL"})
        => tyRet = Ok(IF tyX # PyNone THEN tyX
                      ELSE IF tyOp = "column NOT NULL" THEN tyT.default
                      ELSE PyNone)

\* C21 (as claimed): a DatabaseConnectionException raised while prepare()
\* runs its charset step (the connection is not to be had for the collation
\* query or for the ALTER) leaves prepare() as that exception.
C21_ConnectionErrorPropagates ==
    [][\A m \in PrepareModes :
         (/\ Prepare(m)
          /\ charset # NoCharset
          /\ ReachesCharsetStep(m)
          /\ m[3] = "conn" \/ m[4] = "conn")
         => ret'.raised = "DatabaseConnectionException"]_mvars

\* C22: a Database.execute call obtains its cursor, then runs cursor.execute,
\* then commits, then returns the cursor: the commit comes only after a
\* cursor.execute that did not raise and only with auto_commit true, a call
\* that returns has committed once with auto_commit true and not at all with
\* it false, and Select.execute never commits.
C22_ExecuteOrder ==
    /\ Len(exLog) <= 3
    /\ \A i \in 1..Len(exLog) : exLog[i].ev = <<"cursor", "execute", "commit">>[i]
    /\ Len(exLog) = 3 => (exCall.auto_commit /\ exLog[2].ok)
    /\ (exPc = "return" \/ (exPc = "idle" /\ exRet = "cursor"))
         => (/\ Len(exLog) = (IF exCall.auto_commit THEN 3 ELSE 2)
             /\ exLog[2].ok)
    /\ exPc = "commit" => (Len(exLog) = 2 /\ exLog[2].ok /\ exCall.auto_commit)
    /\ exPc = "execute" => Len(exLog) = 1
    /\ exRet = "DriverError" => (Len(exLog) = 2 /\ ~exLog[2].ok)
    /\ exCall.op = "Select.execute" => Len(exLog) <= 2

\* an inserting call that ran its statement, committed and returned the cursor
C22_Witness ==
    /\ exPc = "idle" /\ exRet = "cursor" /\ exCall.op = "Insert.execute"
    /\ Len(exLog) = 3 /\ exLog[3].ev = "commit"

\* C25 (as claimed): the commit of an execute() call is issued on the
\* connection its statement was executed on, however the connection drops.
C25_CommitOnSameConnection ==
    Len(exLog) = 3 => exLog[3].conn = exLog[2].conn

\* C23: string_to_type of the lower-cased name of a registered SQLType, or
\* of a modifiable one called with parameters, is a type of the same base
\* name and parameters; a type string whose base name the registry lacks
\* gives no type, and describe_table raises the type-recognition TypeError
\* for it and builds no column.
C23_StringToTypeRoundTrip ==
    /\ tyOp = "string_to_type"
         => /\ tyRet.val # NoType
            /\ tyRet.val.name = tyRet.arg.name
            /\ tyRet.val.args = tyRet.arg.args
            /\ TypeEq(tyRet.val, tyRet.arg)
    /\ tyOp = "describe_table"
         => IF tyRet.arg \in {"datetime", "text", "timestamp(6)"}
            THEN /\ string_to_type(tyRet.arg) = NoType
                 /\ tyRet.raised = "TypeError: Unable to recognize name as a SQLType"
                 /\ tyRet.val = <<>>
            ELSE /\ tyRet.raised = "none"
                 /\ Len(tyRet.val) = 1
                 /\ TypeEq(tyRet.val[1].sql_type, tyT)

\* DOUBLE(10,2) read back from "double(10,2)"
C23_Witness ==
    /\ tyOp = "string_to_type" /\ tyT = DOUBLE
    /\ tyRet.arg.args = <<10, 2>> /\ tyRet.val.args = <<10, 2>> /\ tyRet.val.name = "DOUBLE"

====
